---- MODULE Spec2Model ----
(***************************************************************************)
(* Model of src/app.py: the Flask handler download() and the background    *)
(* thread body cleanup_path().                                             *)
(*                                                                         *)
(* Strings that the code inspects (the url field) are sequences of         *)
(* one-character strings; strings the code only compares for equality or   *)
(* passes on are TLA+ strings.  A path below BASE_TEMP is the sequence of  *)
(* its components: <<>> is BASE_TEMP, <<u>> a work directory, <<u, n>> an  *)
(* entry of it.  The extraction tool (yt_dlp) is opaque: it writes some    *)
(* entries into the directory of the output template it was given and      *)
(* either returns or raises a subclass of Exception.                       *)
(***************************************************************************)
EXTENDS Integers, Sequences, FiniteSets, TLC

(* ---------------------------- bounds ----------------------------------- *)
NumReq == 2          \* number of download requests that may be in flight
TickStep == 15       \* seconds by which the clock advances in one step
MaxThreads == 3      \* threads started on one path, for cleanup_path on its own

(* ------------------------ program constants ---------------------------- *)
SendDelay == 30      \* cleanup delay on the path that sends a file
ErrorDelay == 5      \* cleanup delay on the failure paths

Req == 1 .. NumReq
BASE_TEMP == <<>>

(* ------------------------------ strings -------------------------------- *)
Str_http == <<"h", "t", "t", "p", ":", "/", "/">>
Str_https == <<"h", "t", "t", "p", "s", ":", "/", "/">>

Whitespace == {" ", "\t"}

RECURSIVE lstrip(_)
lstrip(s) ==
    IF s # <<>> /\ Head(s) \in Whitespace THEN lstrip(Tail(s)) ELSE s

RECURSIVE rstrip(_)
rstrip(s) ==
    IF s # <<>> /\ s[Len(s)] \in Whitespace
    THEN rstrip(SubSeq(s, 1, Len(s) - 1))
    ELSE s

strip(s) == rstrip(lstrip(s))

(* a prefix test that stops one character early *)
startswith_short(s, p) ==
    Len(s) >= Len(p) - 1 /\ SubSeq(s, 1, Len(p) - 1) = SubSeq(p, 1, Len(p) - 1)

startswith(s, p) == Len(s) >= Len(p) /\ SubSeq(s, 1, Len(p)) = p

(* request.form.get(key, default) *)
form_get(f, key, default) == IF key \in DOMAIN f THEN f[key] ELSE default

(* the forms a client may post: either field may be missing *)
Url_empty == << >>
Url_blank == <<" ", "\t">>
Url_ftp == <<"f", "t", "p", ":", "/", "/", "a">>
Url_short == <<"h", "t", "t", "p", ":", "/">>
Url_http == <<" ">> \o Str_http \o <<"a", "\t">>
Url_https == Str_https \o <<"b">>

Forms ==
    { ("kind" :> "audio"),
      ("url" :> Url_empty) @@ ("kind" :> "video"),
      ("url" :> Url_blank) @@ ("kind" :> "audio"),
      ("url" :> Url_ftp) @@ ("kind" :> "video"),
      ("url" :> Url_short),
      ("url" :> Url_http) @@ ("kind" :> "audio"),
      ("url" :> Url_https) @@ ("kind" :> "video"),
      ("url" :> Url_https) @@ ("kind" :> "AUDIO"),
      ("url" :> Url_http) }

(* line 82: url = (request.form.get("url") or "").strip() *)
url_of(f) == strip(form_get(f, "url", <<>>))

(* the default of the kind field taken to be audio *)
kind_of_audio_default(f) == form_get(f, "kind", "audio")

(* line 83: kind = request.form.get("kind", "video") *)
kind_of(f) == form_get(f, "kind", "video")

(* line 85: the condition of the rejection branch *)
invalid_url(url) ==
    url = <<>> \/ ~(startswith(url, Str_http) \/ startswith(url, Str_https))


(* ------------------------- options objects ----------------------------- *)
(* line 95: outtmpl = str(workdir / "%(title).100s.%(ext)s") *)
outtmpl_of(wd) == wd \o <<"%(title).100s.%(ext)s">>

(* lines 98-110 *)
audio_opts(outtmpl) ==
    [ format |-> "bestaudio/best",
      outtmpl |-> outtmpl,
      noplaylist |-> TRUE,
      quiet |-> TRUE,
      postprocessors |-> << [ key |-> "FFmpegExtractAudio",
                              preferredcodec |-> "mp3",
                              preferredquality |-> "128" ] >>,
      merge_output_format |-> "unset",
      prefer_ffmpeg |-> TRUE ]

(* lines 112-120 *)
video_opts(outtmpl) ==
    [ format |-> "best[ext=mp4]/best",
      outtmpl |-> outtmpl,
      noplaylist |-> TRUE,
      quiet |-> TRUE,
      postprocessors |-> << >>,
      merge_output_format |-> "None",
      prefer_ffmpeg |-> TRUE ]

(* lines 97-120: the branch on kind *)
make_opts(kind, outtmpl) ==
    IF kind = "audio" THEN audio_opts(outtmpl) ELSE video_opts(outtmpl)

NoOpts == video_opts(<<>>)

(* --------------------------- file system ------------------------------- *)
Entry(n, sz, d) == [name |-> n, size |-> sz, isdir |-> d]

(* what the extraction tool may leave in the directory it writes to *)
ToolOutputs ==
    { {},
      { Entry("a", 1, FALSE), Entry("b", 2, FALSE) },
      { Entry("a", 2, FALSE), Entry("b", 2, FALSE) },
      { Entry("a", 1, FALSE), Entry("b", 3, TRUE) } }

NoDir == [exists |-> FALSE, entries |-> {}]
EmptyDir == [exists |-> TRUE, entries |-> {}]

(* the directory a path of two or more components lies in *)
dirname(p) == SubSeq(p, 1, Len(p) - 1)

(* Path.exists() *)
path_exists(base, d, p) ==
    CASE Len(p) = 0 -> base
      [] Len(p) = 1 -> base /\ p[1] \in DOMAIN d /\ d[p[1]].exists
      [] OTHER -> base /\ p[1] \in DOMAIN d /\ d[p[1]].exists
                  /\ \E e \in d[p[1]].entries : e.name = p[2]

(* Path.is_file() *)
path_is_file(base, d, p) ==
    /\ Len(p) = 2
    /\ path_exists(base, d, p)
    /\ \E e \in d[p[1]].entries : e.name = p[2] /\ ~e.isdir

(* the directories after path.unlink() or shutil.rmtree(path) succeeded *)
dirs_without(d, p) ==
    CASE Len(p) = 0 -> [u \in DOMAIN d |-> NoDir]
      [] Len(p) = 1 -> [u \in DOMAIN d |-> IF u = p[1] THEN NoDir ELSE d[u]]
      [] OTHER -> [u \in DOMAIN d |->
                     IF u = p[1]
                     THEN [d[u] EXCEPT !.entries = {e \in @ : e.name # p[2]}]
                     ELSE d[u]]

(* workdir.glob("*"): the entries, in an order the file system chooses *)
Orders(S) ==
    { s \in [1 .. Cardinality(S) -> S] : \A e \in S : \E i \in DOMAIN s : s[i] = e }

(* line 126: the sort key, p.stat().st_size if p.exists() else 0 *)
sort_key(base, d, wd, e) ==
    IF path_exists(base, d, wd \o <<e.name>>) THEN e.size ELSE 0

(* a sort that puts the smallest key first *)
insert_asc(x, t) ==
    LET k == Cardinality({i \in DOMAIN t : t[i].key <= x.key})
    IN SubSeq(t, 1, k) \o <<x>> \o SubSeq(t, k + 1, Len(t))

(* sorted(..., key=..., reverse=True) over a sequence of [key, entry]     *)
(* records; the sort is stable: equal keys keep their order               *)
insert_desc(x, t) ==
    LET k == Cardinality({i \in DOMAIN t : t[i].key >= x.key})
    IN SubSeq(t, 1, k) \o <<x>> \o SubSeq(t, k + 1, Len(t))

RECURSIVE sorted_desc(_)
sorted_desc(s) ==
    IF s = <<>> THEN <<>>
    ELSE insert_desc(s[Len(s)], sorted_desc(SubSeq(s, 1, Len(s) - 1)))

(* ---------------------------- exceptions ------------------------------- *)
(* the classes the tool and send_file raise; all derive from Exception *)
ExceptionSubclasses == {"DownloadError", "OSError"}

(* an except clause that names the tool's exception only *)
handler_catches_narrow(e) == e = "DownloadError"

(* line 136: except Exception as e *)
handler_catches(e) == e \in ExceptionSubclasses

(* cleanup_path without its try/except *)
cleanup_catches_none(e) == FALSE

(* lines 73-74: a bare except *)
cleanup_catches(e) == TRUE

(* ------------------------------ state ---------------------------------- *)
VARIABLES
    pc,          \* pc[r]: where request r is in download()
    form,        \* form[r]: request.form of request r
    workdir,     \* workdir[r]: the local workdir, <<>> while unset
    ydl_opts,    \* ydl_opts[r]: the options handed to yt_dlp.YoutubeDL
    outfile,     \* outfile[r]: the local outfile, <<>> while unset
    response,    \* response[r]: what the handler returned
    flashed,     \* flashed[r]: the messages flashed by request r
    escaped,     \* escaped[r]: an exception left the handler
    log,         \* log[r]: what happened to request r, in order: "receive",
                 \* "extract" (the tool ran), "raise" (the try block raised),
                 \* "pick" (line 126), "none" (no entry), "schedule" (line 133),
                 \* "stream" (send_file returned), "sent" (transfer complete),
                 \* "delete" (its work directory was removed)
    baseExists,  \* BASE_TEMP exists
    dirs,        \* dirs[u]: the directory BASE_TEMP / u
    threads      \* threads[r]: the cleanup threads request r has started

vars == << pc, form, workdir, ydl_opts, outfile, response, flashed, escaped,
           log, baseExists, dirs, threads >>

Uids == 1 .. NumReq

NoResponse == [type |-> "none", path |-> <<>>]
Redirect == [type |-> "redirect", path |-> <<"index">>]
FileResponse(p) == [type |-> "file", path |-> p]

MsgInvalid == "Please enter a valid URL"
MsgNotFound == "Download completed but file not found."
MsgError(e) == "Error: " \o e

(* lines 19-20: BASE_TEMP.mkdir(exist_ok=True) at import; nothing else yet *)
Init ==
    /\ pc = [r \in Req |-> "idle"]
    /\ form = [r \in Req |-> << >>]
    /\ workdir = [r \in Req |-> << >>]
    /\ ydl_opts = [r \in Req |-> NoOpts]
    /\ outfile = [r \in Req |-> << >>]
    /\ response = [r \in Req |-> NoResponse]
    /\ flashed = [r \in Req |-> << >>]
    /\ escaped = [r \in Req |-> FALSE]
    /\ log = [r \in Req |-> << >>]
    /\ baseExists = TRUE
    /\ dirs = [u \in Uids |-> NoDir]
    /\ threads = [r \in Req |-> << >>]

(* a directory name that is the same for every request *)
uuid4_fixed(r) == 1

(* line 90: uuid.uuid4().hex in request r, a value no other call returns *)
uuid4(r) == r

(* threading.Thread(target=cleanup_path, args=(path, wait)).start() *)
new_thread(path, wait) ==
    [ path |-> path, wait |-> wait, slept |-> 0, pc |-> "sleep",
      existed |-> FALSE, removed |-> FALSE, escaped |-> FALSE ]

(* the path the failure branches hand to cleanup_path, lines 129 and 138 *)
failure_cleanup(r) == new_thread(workdir[r], ErrorDelay)

(* the path the sending branch hands to cleanup_path, line 133 *)
send_cleanup(r) == new_thread(workdir[r], SendDelay)

(* lines 136-139: the except clause of download(), entered with exception e *)
HandleException(r, e) ==
    IF handler_catches(e)
    THEN /\ flashed' = [flashed EXCEPT ![r] = Append(@, MsgError(e))]
         /\ threads' = [threads EXCEPT ![r] = Append(@, failure_cleanup(r))]
         /\ response' = [response EXCEPT ![r] = Redirect]
         /\ pc' = [pc EXCEPT ![r] = "done"]
         /\ UNCHANGED escaped
    ELSE /\ escaped' = [escaped EXCEPT ![r] = TRUE]
         /\ pc' = [pc EXCEPT ![r] = "done"]
         /\ UNCHANGED << flashed, threads, response >>

(* lines 82-87: the form is read and the url rejected *)
DownloadReject(r) ==
    /\ pc[r] = "idle"
    /\ \E f \in Forms :
         /\ invalid_url(url_of(f))
         /\ form' = [form EXCEPT ![r] = f]
    /\ flashed' = [flashed EXCEPT ![r] = Append(@, MsgInvalid)]
    /\ response' = [response EXCEPT ![r] = Redirect]
    /\ pc' = [pc EXCEPT ![r] = "done"]
    /\ log' = [log EXCEPT ![r] = Append(@, "receive")]
    /\ UNCHANGED << workdir, ydl_opts, outfile, escaped, baseExists,
                    dirs, threads >>

(* lines 82-92: the form is read, the url accepted, the work directory made *)
DownloadBegin(r) ==
    /\ pc[r] = "idle"
    /\ \E f \in Forms :
         /\ ~invalid_url(url_of(f))
         /\ form' = [form EXCEPT ![r] = f]
    /\ LET uid == uuid4(r)
       IN /\ workdir' = [workdir EXCEPT ![r] = BASE_TEMP \o <<uid>>]
          /\ dirs' = [dirs EXCEPT ![uid] = IF @.exists THEN @ ELSE EmptyDir]
    /\ baseExists' = TRUE
    /\ pc' = [pc EXCEPT ![r] = "try"]
    /\ log' = [log EXCEPT ![r] = Append(@, "receive")]
    /\ UNCHANGED << ydl_opts, outfile, response, flashed, escaped, threads >>

(* the tool leaves the entries out in the directory of its output template *)
tool_writes(d, opts, out) ==
    LET target == dirname(opts.outtmpl)
    IN IF Len(target) = 1 /\ target[1] \in DOMAIN d
       THEN [d EXCEPT ![target[1]] = [exists |-> TRUE, entries |-> out]]
       ELSE d

(* lines 95-123: the options are built and the tool runs to its end *)
Extract(r) ==
    /\ pc[r] = "try"
    /\ LET opts == make_opts(kind_of(form[r]), outtmpl_of(workdir[r]))
       IN /\ ydl_opts' = [ydl_opts EXCEPT ![r] = opts]
          /\ \E out \in ToolOutputs : dirs' = tool_writes(dirs, opts, out)
    /\ \/ /\ pc' = [pc EXCEPT ![r] = "extracted"]
          /\ log' = [log EXCEPT ![r] = Append(@, "extract")]
          /\ UNCHANGED << flashed, threads, response, escaped >>
       \/ /\ HandleException(r, "DownloadError")
          /\ log' = [log EXCEPT ![r] = @ \o <<"extract", "raise">>]
    /\ UNCHANGED << form, workdir, outfile, baseExists >>

(* workdir.glob("*"): nothing when the directory is gone *)
glob(base, d, wd) ==
    IF Len(wd) = 1 /\ path_exists(base, d, wd) THEN d[wd[1]].entries ELSE {}

(* line 126 for one order in which glob yields the entries *)
sorted_files(base, d, wd, order) ==
    sorted_desc([i \in DOMAIN order |->
                   [key |-> sort_key(base, d, wd, order[i]), entry |-> order[i]]])

(* lines 126-130: nothing to send *)
PickNone(r) ==
    /\ pc[r] = "extracted"
    /\ glob(baseExists, dirs, workdir[r]) = {}
    /\ flashed' = [flashed EXCEPT ![r] = Append(@, MsgNotFound)]
    /\ threads' = [threads EXCEPT ![r] = Append(@, failure_cleanup(r))]
    /\ response' = [response EXCEPT ![r] = Redirect]
    /\ pc' = [pc EXCEPT ![r] = "done"]
    /\ log' = [log EXCEPT ![r] = @ \o <<"pick", "none">>]
    /\ UNCHANGED << form, workdir, ydl_opts, outfile, escaped,
                    baseExists, dirs >>

(* lines 126-132: the first of the sorted entries becomes outfile *)
PickLargest(r) ==
    /\ pc[r] = "extracted"
    /\ glob(baseExists, dirs, workdir[r]) # {}
    /\ \E order \in Orders(glob(baseExists, dirs, workdir[r])) :
         LET files == sorted_files(baseExists, dirs, workdir[r], order)
         IN outfile' = [outfile EXCEPT ![r] = workdir[r] \o <<files[1].entry.name>>]
    /\ pc' = [pc EXCEPT ![r] = "picked"]
    /\ log' = [log EXCEPT ![r] = Append(@, "pick")]
    /\ UNCHANGED << form, workdir, ydl_opts, response, flashed, escaped,
                    baseExists, dirs, threads >>

(* line 133: the cleanup thread of the sending branch is started *)
StartCleanup(r) ==
    /\ pc[r] = "picked"
    /\ threads' = [threads EXCEPT ![r] = Append(@, send_cleanup(r))]
    /\ pc' = [pc EXCEPT ![r] = "scheduled"]
    /\ log' = [log EXCEPT ![r] = Append(@, "schedule")]
    /\ UNCHANGED << form, workdir, ydl_opts, outfile, response, flashed,
                    escaped, baseExists, dirs >>

(* line 134: send_file opens outfile and the handler returns the response *)
SendFile(r) ==
    /\ pc[r] = "scheduled"
    /\ path_is_file(baseExists, dirs, outfile[r])
    /\ response' = [response EXCEPT ![r] = FileResponse(outfile[r])]
    /\ pc' = [pc EXCEPT ![r] = "streaming"]
    /\ log' = [log EXCEPT ![r] = Append(@, "stream")]
    /\ UNCHANGED << form, workdir, ydl_opts, outfile, flashed, escaped,
                    baseExists, dirs, threads >>

(* line 134: send_file raises, outfile being a directory or gone *)
SendFileRaises(r) ==
    /\ pc[r] = "scheduled"
    /\ ~path_is_file(baseExists, dirs, outfile[r])
    /\ HandleException(r, "OSError")
    /\ log' = [log EXCEPT ![r] = Append(@, "raise")]
    /\ UNCHANGED << form, workdir, ydl_opts, outfile,
                    baseExists, dirs >>

(* the server has written the last byte of the file to the client *)
TransferDone(r) ==
    /\ pc[r] = "streaming"
    /\ pc' = [pc EXCEPT ![r] = "done"]
    /\ log' = [log EXCEPT ![r] = Append(@, "sent")]
    /\ UNCHANGED << form, workdir, ydl_opts, outfile, response, flashed,
                    escaped, baseExists, dirs, threads >>

(* ----------------------------- cleanup_path ----------------------------- *)
Min(a, b) == IF a < b THEN a ELSE b

(* line 66: time passes for every thread inside time.sleep *)
Tick ==
    /\ \E r \in Req : \E i \in DOMAIN threads[r] :
         threads[r][i].pc = "sleep" /\ threads[r][i].slept < threads[r][i].wait
    /\ threads' = [r \in Req |-> [i \in DOMAIN threads[r] |->
                     IF threads[r][i].pc = "sleep"
                     THEN [threads[r][i] EXCEPT
                             !.slept = Min(@ + TickStep, threads[r][i].wait)]
                     ELSE threads[r][i]]]
    /\ UNCHANGED << pc, form, workdir, ydl_opts, outfile, response, flashed,
                    escaped, log, baseExists, dirs >>

(* a sleep that never returns *)
sleep_never_over(t) == t.slept > t.wait

(* line 66: time.sleep(wait_seconds) may return *)
sleep_over(t) == t.slept >= t.wait

(* lines 66-67: sleep returns and the path is looked up *)
CleanupCheck(r, i) ==
    /\ threads[r][i].pc = "sleep"
    /\ sleep_over(threads[r][i])
    /\ LET found == path_exists(baseExists, dirs, threads[r][i].path)
       IN threads' = [threads EXCEPT
                        ![r][i].pc = IF found THEN "remove" ELSE "done",
                        ![r][i].existed = found]
    /\ UNCHANGED << pc, form, workdir, ydl_opts, outfile, response, flashed,
                    escaped, log, baseExists, dirs >>

(* the requests whose work directory the removal of path p takes away *)
losers(p) ==
    { q \in Req : /\ workdir[q] # << >>
                  /\ path_exists(baseExists, dirs, workdir[q])
                  /\ Len(p) <= 1
                  /\ SubSeq(workdir[q], 1, Len(p)) = p }

(* lines 68-74: unlink or rmtree; a path gone by now raises, which is caught *)
CleanupRemove(r, i) ==
    /\ threads[r][i].pc = "remove"
    /\ LET p == threads[r][i].path
       IN IF path_exists(baseExists, dirs, p)
          THEN /\ dirs' = dirs_without(dirs, p)
               /\ baseExists' = (baseExists /\ p # BASE_TEMP)
               /\ log' = [q \in Req |->
                            IF q \in losers(p)
                            THEN Append(log[q], "delete") ELSE log[q]]
               /\ threads' = [threads EXCEPT ![r][i].pc = "done",
                                             ![r][i].removed = TRUE]
          ELSE /\ threads' = [threads EXCEPT
                                ![r][i].pc = "done",
                                ![r][i].escaped = ~cleanup_catches("FileNotFoundError")]
               /\ UNCHANGED << dirs, baseExists, log >>
    /\ UNCHANGED << pc, form, workdir, ydl_opts, outfile, response, flashed,
                    escaped >>

(* ------------------------------- system --------------------------------- *)
Next ==
    \/ \E r \in Req : DownloadReject(r)
    \/ \E r \in Req : DownloadBegin(r)
    \/ \E r \in Req : Extract(r)
    \/ \E r \in Req : PickNone(r)
    \/ \E r \in Req : PickLargest(r)
    \/ \E r \in Req : StartCleanup(r)
    \/ \E r \in Req : SendFile(r)
    \/ \E r \in Req : SendFileRaises(r)
    \/ \E r \in Req : TransferDone(r)
    \/ Tick
    \/ \E r \in Req : \E i \in DOMAIN threads[r] : CleanupCheck(r, i)
    \/ \E r \in Req : \E i \in DOMAIN threads[r] : CleanupRemove(r, i)

Spec == Init /\ [][Next]_vars

(* cleanup threads run, and the clock advances, whenever they can *)
LiveSpec ==
    /\ Spec
    /\ WF_vars(Tick)
    /\ WF_vars(\E r \in Req : \E i \in DOMAIN threads[r] : CleanupCheck(r, i))
    /\ WF_vars(\E r \in Req : \E i \in DOMAIN threads[r] : CleanupRemove(r, i))

(* cleanup_path on its own: up to MaxThreads threads were started on one   *)
(* path, a directory or a file in it, which exists or not, with any of     *)
(* the delays                                                              *)
CleanupPaths == { <<1>>, <<1, "a">> }

CleanupDirs == { NoDir, EmptyDir, [exists |-> TRUE, entries |-> {Entry("a", 1, FALSE)}] }

CleanupWaits == { 0, ErrorDelay, SendDelay }

InitCleanup ==
    /\ pc = [r \in Req |-> "done"]
    /\ form = [r \in Req |-> << >>]
    /\ workdir = [r \in Req |-> << >>]
    /\ ydl_opts = [r \in Req |-> NoOpts]
    /\ outfile = [r \in Req |-> << >>]
    /\ response = [r \in Req |-> NoResponse]
    /\ flashed = [r \in Req |-> << >>]
    /\ escaped = [r \in Req |-> FALSE]
    /\ log = [r \in Req |-> << >>]
    /\ baseExists = TRUE
    /\ \E d \in CleanupDirs : dirs = [u \in Uids |-> IF u = 1 THEN d ELSE NoDir]
    /\ \E p \in CleanupPaths : \E n \in 0 .. MaxThreads :
         \E w \in [1 .. n -> CleanupWaits] :
           threads = [r \in Req |->
                        IF r = 1 THEN [i \in 1 .. n |-> new_thread(p, w[i])]
                        ELSE << >>]

NextCleanup ==
    \/ Tick
    \/ \E r \in Req : \E i \in DOMAIN threads[r] : CleanupCheck(r, i)
    \/ \E r \in Req : \E i \in DOMAIN threads[r] : CleanupRemove(r, i)

CleanupSpec == InitCleanup /\ [][NextCleanup]_vars

(* ------------------------------ properties ------------------------------ *)
Range(s) == { s[i] : i \in DOMAIN s }

(* the position of the first e in s, 0 when there is none *)
Pos(s, e) ==
    IF e \in Range(s) THEN CHOOSE i \in DOMAIN s : s[i] = e /\ \A j \in 1 .. i - 1 : s[j] # e
    ELSE 0

HasWorkdir(r) == workdir[r] # << >>
Returned(r) == pc[r] \in {"streaming", "done"}
WorkdirExists(r) == path_exists(baseExists, dirs, workdir[r])

(* C1: for every request that sends a file, its work directory is not      *)
(* deleted before the transfer of the file has completed.                  *)
C1_DeletedOnlyAfterTransfer ==
    \A r \in Req :
        (response[r].type = "file" /\ "delete" \in Range(log[r]))
        => ("sent" \in Range(log[r]) /\ Pos(log[r], "sent") < Pos(log[r], "delete"))

(* C2: every work directory of a request that has returned, whichever way, *)
(* is eventually deleted, given that the cleanup threads run.              *)
C2_WorkdirEventuallyDeleted ==
    \A r \in Req : (Returned(r) /\ HasWorkdir(r)) ~> ~WorkdirExists(r)

C2_Witness ==
    \E r \in Req : /\ Returned(r) /\ HasWorkdir(r) /\ ~WorkdirExists(r)
                   /\ "delete" \in Range(log[r])
                   /\ \E q \in Req : q # r /\ "none" \in Range(log[q])
                                     /\ "delete" \in Range(log[q])

(* the entries of the work directory of r *)
Entries(r) == dirs[workdir[r][1]].entries

(* C3: the file picked, and so the file sent, is a largest entry of the    *)
(* request's work directory: no entry of the directory is larger.          *)
C3_SendsLargest ==
    \A r \in Req :
        (outfile[r] # << >> /\ WorkdirExists(r))
        => /\ dirname(outfile[r]) = workdir[r]
           /\ \E e \in Entries(r) :
                /\ e.name = outfile[r][2]
                /\ \A o \in Entries(r) : e.size >= o.size

C3_Witness ==
    \E r \in Req :
        /\ response[r].type = "file"
        /\ WorkdirExists(r)
        /\ \E e \in Entries(r) : e.name # response[r].path[2] /\ e.size = 1

(* C4: requests that pass validation have pairwise distinct work           *)
(* directories below BASE_TEMP; a file sent comes from the sender's own    *)
(* directory; each cleanup thread works on the directory of the request    *)
(* that started it, and a directory is removed by its own request's        *)
(* thread only; BASE_TEMP itself is never removed.                         *)
C4_WorkdirPerRequest ==
    /\ baseExists
    /\ \A r \in Req :
         /\ HasWorkdir(r) => Len(workdir[r]) = 1
         /\ \A q \in Req : (q # r /\ HasWorkdir(r)) => workdir[q] # workdir[r]
         /\ response[r].type = "file" => dirname(response[r].path) = workdir[r]
         /\ \A i \in DOMAIN threads[r] :
              HasWorkdir(r) /\ threads[r][i].path = workdir[r]
         /\ "delete" \in Range(log[r]) =>
              \E i \in DOMAIN threads[r] : threads[r][i].removed

C4_Witness ==
    \E r \in Req : \E q \in Req :
        /\ q # r
        /\ response[r].type = "file" /\ pc[r] = "streaming"
        /\ HasWorkdir(q) /\ "delete" \in Range(log[q])
        /\ WorkdirExists(r)

(* C5: a request whose try block raised, or that found its work directory  *)
(* empty, ends with a redirect to the index page and one flashed message   *)
(* ("Error: ..." or the not-found message), sends no file, has started a   *)
(* cleanup of its work directory with a delay of 5 seconds, and lets no    *)
(* exception out of the handler.                                           *)
C5_FailureHandled ==
    \A r \in Req :
        ("raise" \in Range(log[r]) \/ "none" \in Range(log[r]))
        => /\ pc[r] = "done"
           /\ response[r] = Redirect
           /\ Len(flashed[r]) = 1
           /\ "none" \in Range(log[r]) => flashed[r][1] = MsgNotFound
           /\ "raise" \in Range(log[r]) =>
                flashed[r][1] \in { MsgError(e) : e \in ExceptionSubclasses }
           /\ "stream" \notin Range(log[r])
           /\ \E i \in DOMAIN threads[r] :
                threads[r][i].wait = 5 /\ threads[r][i].path = workdir[r]
           /\ ~escaped[r]

C5_Witness ==
    \E r \in Req : \E q \in Req :
        /\ "raise" \in Range(log[r]) /\ "schedule" \in Range(log[r])
        /\ "none" \in Range(log[q])

(* C6: in a request that sends a file the steps come in the order receive, *)
(* extract, pick, stream, schedule: the cleanup is never scheduled before  *)
(* the file has been streamed.                                             *)
C6_ScheduledAfterStream ==
    \A r \in Req :
        "schedule" \in Range(log[r])
        => /\ "stream" \in Range(log[r])
           /\ Pos(log[r], "receive") < Pos(log[r], "extract")
           /\ Pos(log[r], "extract") < Pos(log[r], "pick")
           /\ Pos(log[r], "pick") < Pos(log[r], "stream")
           /\ Pos(log[r], "stream") < Pos(log[r], "schedule")

(* the url values that are empty once stripped or have neither prefix *)
BadUrls == { Url_empty, Url_blank, Url_ftp, Url_short }

(* C7: a request whose url field is missing, blank once stripped, or       *)
(* starts with neither "http://" nor "https://" gets the message "Please   *)
(* enter a valid URL" and a redirect, and nothing else happens: it has no  *)
(* work directory, the tool is not invoked, no cleanup thread is started,  *)
(* and every directory that exists is the work directory of some request.  *)
C7_InvalidUrlRejected ==
    /\ \A r \in Req :
         (pc[r] # "idle" /\ ("url" \notin DOMAIN form[r] \/ form[r]["url"] \in BadUrls))
         => /\ pc[r] = "done"
            /\ flashed[r] = << MsgInvalid >>
            /\ response[r] = Redirect
            /\ ~HasWorkdir(r)
            /\ ydl_opts[r] = NoOpts
            /\ log[r] = << "receive" >>
            /\ threads[r] = << >>
            /\ ~escaped[r]
    /\ \A u \in Uids : dirs[u].exists => \E q \in Req : workdir[q] = << u >>

C7_Witness ==
    \E r \in Req : \E q \in Req :
        /\ pc[r] = "done" /\ form[r] = ("url" :> Url_short)
        /\ pc[q] = "done" /\ "url" \notin DOMAIN form[q]

(* C8: the options handed to the tool are the audio options (bestaudio,    *)
(* mp3 extraction) exactly when the kind field is "audio", and the video   *)
(* options (mp4 preferred) for every other value and for a missing field;  *)
(* either way the output template lies in the request's own work           *)
(* directory and playlists are disabled.                                   *)
C8_OptionsFixedByKind ==
    \A r \in Req :
        "extract" \in Range(log[r])
        => LET audio == "kind" \in DOMAIN form[r] /\ form[r]["kind"] = "audio"
               o == ydl_opts[r]
           IN /\ audio => /\ o.format = "bestaudio/best"
                          /\ Len(o.postprocessors) = 1
                          /\ o.postprocessors[1].key = "FFmpegExtractAudio"
                          /\ o.postprocessors[1].preferredcodec = "mp3"
              /\ ~audio => /\ o.format = "best[ext=mp4]/best"
                           /\ o.postprocessors = << >>
              /\ HasWorkdir(r) /\ dirname(o.outtmpl) = workdir[r]
              /\ o.noplaylist

C8_Witness ==
    \E r \in Req : \E q \in Req :
        /\ "extract" \in Range(log[r]) /\ "kind" \notin DOMAIN form[r]
        /\ "extract" \in Range(log[q])
        /\ "kind" \in DOMAIN form[q] /\ form[q]["kind"] = "audio"

(* C9: every request that has made a work directory and has returned has   *)
(* started exactly one cleanup thread for it.                              *)
C9_ExactlyOneCleanup ==
    \A r \in Req : (HasWorkdir(r) /\ Returned(r)) => Len(threads[r]) = 1

(* the threads working on path p *)
ThreadsOn(p) ==
    UNION { { <<r, i>> : i \in { j \in DOMAIN threads[r] : threads[r][j].path = p } }
            : r \in Req }

(* C10: no exception leaves a cleanup thread; once every thread working on *)
(* a path has finished the path is absent; a thread that found its path    *)
(* absent removed nothing; a thread is past its sleep only when its delay  *)
(* has elapsed.                                                            *)
C10_CleanupSafe ==
    \A r \in Req : \A i \in DOMAIN threads[r] :
        LET t == threads[r][i]
        IN /\ ~t.escaped
           /\ (\A ri \in ThreadsOn(t.path) : threads[ri[1]][ri[2]].pc = "done")
                => ~path_exists(baseExists, dirs, t.path)
           /\ (t.pc = "done" /\ ~t.existed) => ~t.removed
           /\ t.pc # "sleep" => t.slept >= t.wait

(* three threads on one path: one removed it, one lost the race after its  *)
(* check, one found it absent                                              *)
C10_Witness ==
    \E r \in Req : \E i \in DOMAIN threads[r] : \E j \in DOMAIN threads[r] :
      \E k \in DOMAIN threads[r] :
        /\ \A h \in DOMAIN threads[r] : threads[r][h].pc = "done"
        /\ threads[r][i].removed /\ threads[r][i].wait = 30
        /\ threads[r][j].existed /\ ~threads[r][j].removed
        /\ ~threads[r][k].existed

====
